---- MODULE Spec2Model ----
(***************************************************************************)
(* Model of .github/scripts/update_panos_endoflife.py                      *)
(*                                                                         *)
(* Text is modelled as a sequence of tokens.  A token is a record          *)
(* [k |-> kind, v |-> tuple of numbers]; the kinds are                     *)
(*   "nl"      a line break                                                *)
(*   "hdr"     `  - releaseCycle: "X.Y"` at the start of a line, v = <<X,Y>> *)
(*   "hdru"    `  - releaseCycle: X.Y`   (cycle not quoted), v = <<X,Y>>    *)
(*   "end"     the line `---`                                              *)
(*   "k_latest", "k_date", "k_link"                                        *)
(*             `    latest: `, `    latestReleaseDate: `, `    link: `     *)
(*   "q"       a double quote                                              *)
(*   "ver"     the digits `a.b.c`, v = <<a,b,c>>                           *)
(*   "hf"      the suffix `-hN`, v = <<N>>                                 *)
(*   "word"    any other run of non-blank characters, v = <<id>>           *)
(*   "date"    `YYYY-MM-DD`, v = <<y,m,d>>                                 *)
(*   "ngfw", "panos", "known", "addr"   the path segments of a URL         *)
(*   "txt"     a line of other text, v = <<id>>                            *)
(* A string is a sequence of tokens: "12.1.4-h2" is <<ver(12,1,4), hf(2)>>, *)
(* "12.1.4" is <<ver(12,1,4)>>, so strings with the same parsed tuple can  *)
(* differ and have different lengths.  Numerals are canonical decimals.    *)
(* Offsets count tokens and are 0-based and half-open like Python slices.  *)
(***************************************************************************)
EXTENDS Integers, Sequences, FiniteSets, TLC

VARIABLES
    pc,               \* position of the run of main / of the function under test
    run,              \* 1 for the first run of main, 2 for the run on its own output
    feed,             \* the entries of the JSON file (--json)
    md,               \* the text of the markdown file (--md)
    json_cycles,      \* main: json_cycles
    content,          \* main: content
    releases,         \* main: releases
    updated_content,  \* main: updated_content
    changes,          \* main: changes
    outfile,          \* the text of the --output file, None while not written
    stdout,           \* the lines printed
    exit_code,        \* the exit status, -1 while running
    error,            \* the exception that ended the run, "" when none
    version_str,      \* build_release_notes_url: its argument
    url               \* build_release_notes_url: its result

vars == <<pc, run, feed, md, json_cycles, content, releases, updated_content,
          changes, outfile, stdout, exit_code, error, version_str, url>>

-----------------------------------------------------------------------------
(* Tokens and strings *)

Tok(k, v) == [k |-> k, v |-> v]

NL == Tok("nl", <<>>)
Q == Tok("q", <<>>)
END == Tok("end", <<>>)

\* Python's None: a value no string equals
None == <<Tok("None", <<>>)>>

\* the empty string
Empty == <<>>

\* "a.b.c"
VerStr(a, b, c) == <<Tok("ver", <<a, b, c>>)>>

\* "a.b.c-hN"
VerHfStr(a, b, c, h) == <<Tok("ver", <<a, b, c>>), Tok("hf", <<h>>)>>

\* a string that is no version, such as "TBD"
WordStr(id) == <<Tok("word", <<id>>)>>

\* "a.b.c-beta": a version followed by a suffix that is no hotfix
VerWordStr(a, b, c, id) == <<Tok("ver", <<a, b, c>>), Tok("word", <<id>>)>>

\* "YYYY-MM-DD"
DateStr(y, m, d) == <<Tok("date", <<y, m, d>>)>>

\* Python's tuple order: lexicographic
RECURSIVE TupleGT(_, _)
TupleGT(a, b) ==
    IF a = <<>> THEN FALSE
    ELSE IF b = <<>> THEN TRUE
    ELSE IF Head(a) # Head(b) THEN Head(a) > Head(b)
    ELSE TupleGT(Tail(a), Tail(b))

TupleGE(a, b) == a = b \/ TupleGT(a, b)

-----------------------------------------------------------------------------
(* parse_version, get_release_cycle, build_release_notes_url *)

\* re.match(r"(\d+)\.(\d+)\.(\d+)(?:-h(\d+))?$"): the whole string is a.b.c
\* with an optional -hN; the hotfix defaults to 0
parse_version(s) ==
    IF Len(s) = 1 /\ s[1].k = "ver"
        THEN s[1].v \o <<0>>
    ELSE IF Len(s) = 2 /\ s[1].k = "ver" /\ s[2].k = "hf"
        THEN s[1].v \o s[2].v
    ELSE None

\* re.match(r"(\d+\.\d+)"): the leading major.minor, whatever follows
get_release_cycle(s) ==
    IF Len(s) >= 1 /\ s[1].k = "ver"
        THEN <<s[1].v[1], s[1].v[2]>>
    ELSE None

\* faulty variant: the (major, minor) pair compared component by component
build_release_notes_url_componentwise(s) ==
    LET cycle == get_release_cycle(s) IN
    IF cycle = None THEN None
    ELSE
        LET major == cycle[1]
            minor == cycle[2]
            base_dashed == s[1].v
            full_dashed == IF Len(s) > 1 THEN base_dashed \o s[2].v ELSE base_dashed
        IN  IF major >= 12 /\ minor >= 1
                THEN <<Tok("ngfw", cycle), Tok("known", base_dashed), Tok("addr", full_dashed)>>
            ELSE IF major >= 10 /\ minor >= 1
                THEN <<Tok("panos", cycle), Tok("known", base_dashed), Tok("addr", full_dashed)>>
            ELSE IF major >= 8 /\ minor >= 1
                THEN <<Tok("panos", cycle), Tok("addr", cycle), Tok("addr", full_dashed)>>
            ELSE None

\* The URL is three path segments after the host:
\*   A  ngfw/release-notes/<cycle> , pan-os-<base>-known-and-addressed-issues ,
\*      pan-os-<full>-addressed-issues
\*   B  pan-os/<cycle>/pan-os-release-notes , pan-os-<base>-known-and-addressed-issues ,
\*      pan-os-<full>-addressed-issues
\*   C  pan-os/<cycle>/pan-os-release-notes , pan-os-<cycle>-addressed-issues ,
\*      pan-os-<full>-addressed-issues
build_release_notes_url(s) ==
    LET cycle == get_release_cycle(s) IN
    IF cycle = None THEN None
    ELSE
        LET major == cycle[1]
            minor == cycle[2]
            base_dashed == s[1].v
            full_dashed == IF Len(s) > 1 THEN base_dashed \o s[2].v ELSE base_dashed
        IN  IF TupleGE(<<major, minor>>, <<12, 1>>)
                THEN <<Tok("ngfw", cycle), Tok("known", base_dashed), Tok("addr", full_dashed)>>
            ELSE IF TupleGE(<<major, minor>>, <<10, 1>>)
                THEN <<Tok("panos", cycle), Tok("known", base_dashed), Tok("addr", full_dashed)>>
            ELSE IF TupleGE(<<major, minor>>, <<8, 1>>)
                THEN <<Tok("panos", cycle), Tok("addr", cycle), Tok("addr", full_dashed)>>
            ELSE None

-----------------------------------------------------------------------------
(* load_json_versions *)

\* A "released-on" value is [form, y, m, d]; the time of day is not modelled.
\*   "padded"    2026/02/04 11:11:55
\*   "unpadded"  2026/2/4 1:1:5
\*   "dateonly"  2026/02/04
\*   "iso"       2026-02-04T11:11:55
Stamp(form, y, m, d) == [form |-> form, y |-> y, m |-> m, d |-> d]

DaysIn(y, m) ==
    IF m \in {4, 6, 9, 11} THEN 30
    ELSE IF m = 2
        THEN (IF y % 4 = 0 /\ (y % 100 # 0 \/ y % 400 = 0) THEN 29 ELSE 28)
    ELSE 31

\* faulty variant: strptime with a format that does not ask for the time of day
strptime_ok_dateonly(ts) ==
    /\ ts.form \in {"padded", "unpadded", "dateonly"}
    /\ ts.m \in 1..12
    /\ ts.d \in 1..DaysIn(ts.y, ts.m)

\* datetime.strptime(ts, "%Y/%m/%d %H:%M:%S") returns: the %m, %d, %H, %M, %S
\* directives take one or two digits, the separators are fixed, and the date
\* must exist
strptime_ok(ts) ==
    /\ ts.form \in {"padded", "unpadded"}
    /\ ts.m \in 1..12
    /\ ts.d \in 1..DaysIn(ts.y, ts.m)

\* .strftime("%Y-%m-%d")
strftime(ts) == DateStr(ts.y, ts.m, ts.d)

\* faulty variant: a later record of equal tuple replaces the retained one
replaces_or_equal(cycles, cycle, parsed) ==
    \/ cycle \notin DOMAIN cycles
    \/ TupleGE(parsed, parse_version(cycles[cycle].version))

\* line 109: cycle not in cycles or parsed > parse_version(cycles[cycle]["version"])
replaces(cycles, cycle, parsed) ==
    \/ cycle \notin DOMAIN cycles
    \/ TupleGT(parsed, parse_version(cycles[cycle].version))

\* The loop of load_json_versions from entry i on, cycles being the dict so far.
\* The result is [raised, cycles]: raised when strptime raises ValueError.
RECURSIVE load_loop(_, _, _)
load_loop(entries, i, cycles) ==
    IF i > Len(entries) THEN [raised |-> FALSE, cycles |-> cycles]
    ELSE
        LET entry == entries[i]
            parsed == parse_version(entry.version)
            cycle == get_release_cycle(entry.version)
        IN  IF parsed = None THEN load_loop(entries, i + 1, cycles)
            ELSE IF cycle = None THEN load_loop(entries, i + 1, cycles)
            ELSE IF ~strptime_ok(entry.released_on)
                THEN [raised |-> TRUE, cycles |-> <<>>]
            ELSE IF replaces(cycles, cycle, parsed)
                THEN load_loop(entries, i + 1,
                        (cycle :> [version |-> entry.version,
                                   date |-> strftime(entry.released_on)])
                        @@ [c \in DOMAIN cycles \ {cycle} |-> cycles[c]])
            ELSE load_loop(entries, i + 1, cycles)

load_json_versions(entries) == load_loop(entries, 1, <<>>)

-----------------------------------------------------------------------------
(* parse_md_releases *)

Min(S) == CHOOSE x \in S : \A y \in S : x <= y

\* the smallest index >= from of a line break followed by a line that starts
\* with `  - releaseCycle:` or with `---`; 0 when there is none
\* (the lookahead (?=\n  - releaseCycle:|\n---))
block_stop(text, from) ==
    LET stops == {j \in from..(Len(text) - 1) :
                    /\ text[j] = NL
                    /\ text[j + 1].k \in {"hdr", "hdru", "end"}}
    IN  IF stops = {} THEN 0 ELSE Min(stops)

\* val.strip('"'): every leading and trailing quote removed
RECURSIVE strip_quotes(_)
strip_quotes(val) ==
    IF val = <<>> THEN val
    ELSE IF Head(val) = Q THEN strip_quotes(Tail(val))
    ELSE IF val[Len(val)] = Q THEN strip_quotes(SubSeq(val, 1, Len(val) - 1))
    ELSE val

\* the end of the line that holds index i: the last index before the next
\* line break
line_end(text, i) ==
    LET nls == {j \in i..Len(text) : text[j] = NL}
    IN  IF nls = {} THEN Len(text) ELSE Min(nls) - 1

\* extract(field, text): re.search(rf"    {field}: (.+)", text), the first line
\* holding the key followed by at least one character; its value with the
\* quotes stripped, None when no line matches
extract(key, text) ==
    LET hits == {h \in 1..(Len(text) - 1) : text[h].k = key /\ text[h + 1] # NL}
    IN  IF hits = {} THEN None
        ELSE LET i == Min(hits)
             IN  strip_quotes(SubSeq(text, i + 1, line_end(text, i + 1)))

\* pattern.finditer(content) from index pos on: each match starts at a quoted
\* header at the start of a line and lazily extends to just before the stop
RECURSIVE parse_from(_, _)
parse_from(text, pos) ==
    LET starts == {h \in pos..Len(text) :
                     /\ text[h].k = "hdr"
                     /\ (h = 1 \/ text[h - 1] = NL)
                     /\ block_stop(text, h + 1) # 0}
    IN  IF starts = {} THEN <<>>
        ELSE
            LET i == Min(starts)
                j == block_stop(text, i + 1)
                block == SubSeq(text, i, j - 1)
            IN  <<[releaseCycle |-> text[i].v,
                   latest |-> extract("k_latest", block),
                   latestReleaseDate |-> extract("k_date", block),
                   link |-> extract("k_link", block),
                   _start |-> i - 1,
                   _end |-> j - 1,
                   _text |-> block]>>
                \o parse_from(text, j)

parse_md_releases(text) == parse_from(text, 1)

-----------------------------------------------------------------------------
(* apply_updates *)

\* a token that starts with blanks: \S+ stops before it
StartsBlank(t) == t.k \in {"nl", "hdr", "hdru", "k_latest", "k_date", "k_link", "txt"}

\* the last index of the run of non-blank tokens that starts at i
run_end(text, i) ==
    LET blanks == {j \in i..Len(text) : StartsBlank(text[j])}
    IN  IF blanks = {} THEN Len(text) ELSE Min(blanks) - 1

\* re.sub(r'(    latest: )"[^"]*"', rf'\g<1>"{new_version}"', block) from index
\* i on: the key, a quote and everything up to the next quote
RECURSIVE sub_latest(_, _, _)
sub_latest(block, i, new_version) ==
    IF i > Len(block) THEN <<>>
    ELSE
        LET closing == {j \in (i + 2)..Len(block) : block[j] = Q}
        IN  IF /\ block[i].k = "k_latest"
               /\ i + 1 <= Len(block)
               /\ block[i + 1] = Q
               /\ closing # {}
                THEN <<block[i], Q>> \o new_version \o <<Q>>
                        \o sub_latest(block, Min(closing) + 1, new_version)
            ELSE <<block[i]>> \o sub_latest(block, i + 1, new_version)

\* re.sub(r"(    <key>: )\S+", rf"\g<1>{repl}", block) from index i on
RECURSIVE sub_field(_, _, _, _)
sub_field(block, i, key, repl) ==
    IF i > Len(block) THEN <<>>
    ELSE IF /\ block[i].k = key
            /\ i + 1 <= Len(block)
            /\ ~StartsBlank(block[i + 1])
        THEN <<block[i]>> \o repl
                \o sub_field(block, run_end(block, i + 1) + 1, key, repl)
    ELSE <<block[i]>> \o sub_field(block, i + 1, key, repl)

\* "    link:" in updated_block
has_link(block) == \E i \in 1..Len(block) : block[i].k = "k_link"

\* faulty variant: the link rewritten, or added, whenever a URL can be built
rewrite_link_always(block, new_url) ==
    IF new_url # None
        THEN (IF has_link(block) THEN sub_field(block, 1, "k_link", new_url)
              ELSE block \o <<NL, Tok("k_link", <<>>)>> \o new_url)
    ELSE block

\* lines 190-196
rewrite_link(block, new_url) ==
    IF new_url # None /\ has_link(block)
        THEN sub_field(block, 1, "k_link", new_url)
    ELSE block

\* lines 174-196: the block rewritten for new_version and new_date
rewrite_block(block, new_version, new_date) ==
    rewrite_link(
        sub_field(sub_latest(block, 1, new_version), 1, "k_date", new_date),
        build_release_notes_url(new_version))

\* line 165: release["latest"] or ""
current_version_of(release) ==
    IF release.latest = None THEN Empty ELSE release.latest

\* line 169
current_parsed_of(release) ==
    IF current_version_of(release) # Empty
        THEN parse_version(current_version_of(release))
    ELSE <<0, 0, 0, 0>>

\* line 171: new_parsed > current_parsed raises TypeError when current_parsed
\* is None (a tuple and None have no order)
compare_raises(new_parsed, current_parsed) ==
    new_parsed # None /\ current_parsed = None

\* faulty variant: a candidate of equal tuple counts as newer
is_newer_or_equal(new_parsed, current_parsed) ==
    new_parsed # None /\ TupleGE(new_parsed, current_parsed)

\* line 171: the block is updated when new_parsed and new_parsed > current_parsed
is_newer(new_parsed, current_parsed) ==
    new_parsed # None /\ TupleGT(new_parsed, current_parsed)

RECURSIVE Reverse(_)
Reverse(seq) == IF seq = <<>> THEN <<>> ELSE Reverse(Tail(seq)) \o <<Head(seq)>>

\* faulty variant: the blocks processed in document order
processing_order_forward(rels) == rels

\* line 160: reversed(releases)
processing_order(rels) == Reverse(rels)

\* content[: release["_start"]] + updated_block + content[release["_end"] :]
splice(text, release, updated_block) ==
    SubSeq(text, 1, release._start) \o updated_block
        \o SubSeq(text, release._end + 1, Len(text))

\* The loop of apply_updates over order from index i on; the result is
\* [raised, content, changes], raised when the comparison raises TypeError.
RECURSIVE apply_loop(_, _, _, _, _)
apply_loop(text, order, i, cycles, chg) ==
    IF i > Len(order) THEN [raised |-> FALSE, content |-> text, changes |-> chg]
    ELSE
        LET release == order[i]
            cycle == release.releaseCycle
        IN  IF cycle \notin DOMAIN cycles
                THEN apply_loop(text, order, i + 1, cycles, chg)
            ELSE
                LET current_version == current_version_of(release)
                    new_version == cycles[cycle].version
                    new_date == cycles[cycle].date
                    current_parsed == current_parsed_of(release)
                    new_parsed == parse_version(new_version)
                IN  IF compare_raises(new_parsed, current_parsed)
                        THEN [raised |-> TRUE, content |-> text, changes |-> chg]
                    ELSE IF ~is_newer(new_parsed, current_parsed)
                        THEN apply_loop(text, order, i + 1, cycles, chg)
                    ELSE apply_loop(
                            splice(text, release,
                                   rewrite_block(release._text, new_version, new_date)),
                            order, i + 1, cycles,
                            Append(chg, [cycle |-> cycle,
                                         old |-> current_version,
                                         new |-> new_version]))

apply_updates(text, rels, cycles) ==
    apply_loop(text, processing_order(rels), 1, cycles, <<>>)

-----------------------------------------------------------------------------
(* Inputs *)

\* the longest feed
MaxFeed == 2

\* the most blocks in a document
MaxBlocks == 2

SeqsUpTo(S, n) == UNION {[1..k -> S] : k \in 0..n}

Entry(version, released_on) == [version |-> version, released_on |-> released_on]

\* the stamps of a feed: two that parse to different dates, one unpadded, and
\* three that strptime rejects (no time of day, other separators, no such day)
LoadStamps ==
    {Stamp("padded", 2026, 2, 4), Stamp("padded", 2025, 6, 1), Stamp("unpadded", 2026, 2, 4),
     Stamp("dateonly", 2026, 2, 4), Stamp("iso", 2026, 2, 4), Stamp("padded", 2026, 2, 30)}

\* the versions of a feed: two cycles, equal tuples written differently
\* ("10.1.5" and "10.1.5-h0"), and two strings that are no version
LoadVersions ==
    {VerStr(10, 1, 2), VerStr(10, 1, 5), VerHfStr(10, 1, 5, 0), VerHfStr(10, 1, 5, 1),
     VerStr(7, 1, 3), VerWordStr(10, 1, 6, 1), WordStr(1)}

LoadEntries == {Entry(v, t) : v \in LoadVersions, t \in LoadStamps}

LoadFeeds == SeqsUpTo(LoadEntries, MaxFeed)

\* the feeds of a run of main
MainEntries ==
    {Entry(VerHfStr(10, 1, 5, 1), Stamp("padded", 2026, 2, 4)),
     Entry(VerHfStr(7, 1, 5, 1), Stamp("unpadded", 2025, 6, 1)),
     Entry(VerStr(10, 1, 2), Stamp("dateonly", 2026, 2, 4))}

MainFeeds == SeqsUpTo(MainEntries, MaxFeed)

\* A field of a block: absent, or a value that is quoted or bare
Absent == [present |-> FALSE, quoted |-> FALSE, val |-> <<>>]
Quoted(val) == [present |-> TRUE, quoted |-> TRUE, val |-> val]
Bare(val) == [present |-> TRUE, quoted |-> FALSE, val |-> val]

Cycles == {<<7, 1>>, <<10, 1>>}

LatestForms(c) ==
    {Absent, Quoted(Empty),
     Quoted(VerStr(c[1], c[2], 2)), Bare(VerStr(c[1], c[2], 2)),
     Quoted(VerHfStr(c[1], c[2], 5, 1)), Bare(VerHfStr(c[1], c[2], 5, 1)),
     Quoted(VerStr(c[1], c[2], 9)),
     Quoted(WordStr(1))}

DateForms == {Absent, Quoted(DateStr(2025, 1, 1)), Bare(DateStr(2025, 1, 1))}

\* the old link is some URL: one run of non-blank characters
LinkForms == {Absent, Quoted(WordStr(2)), Bare(WordStr(2))}

Block(c, latest, date, link) ==
    [hdr |-> "hdr", cycle |-> c, latest |-> latest, date |-> date, link |-> link]

\* a block whose header does not quote the cycle: the pattern does not start a
\* match there, and the block before it ends there
UnquotedBlock(c, latest, date, link) ==
    [hdr |-> "hdru", cycle |-> c, latest |-> latest, date |-> date, link |-> link]

BlocksOf(c) ==
    {Block(c, l, d, k) : l \in LatestForms(c), d \in DateForms, k \in LinkForms}

Blocks == UNION {BlocksOf(c) : c \in Cycles}

\* the blocks of the documents that hold several: updated to a longer text, to
\* a shorter text, not updated, updated with a bare latest, without fields, and
\* one that is not parsed
SpliceBlocks ==
    {Block(<<10, 1>>, Quoted(VerStr(10, 1, 2)), Bare(DateStr(2025, 1, 1)), Bare(WordStr(2))),
     Block(<<7, 1>>, Quoted(VerStr(7, 1, 2)), Quoted(DateStr(2025, 1, 1)), Absent),
     Block(<<10, 1>>, Quoted(VerHfStr(10, 1, 5, 1)), Bare(DateStr(2025, 1, 1)), Quoted(WordStr(2))),
     Block(<<10, 1>>, Bare(VerStr(10, 1, 2)), Quoted(DateStr(2025, 1, 1)), Quoted(WordStr(2))),
     Block(<<7, 1>>, Absent, Absent, Bare(WordStr(2))),
     UnquotedBlock(<<10, 1>>, Quoted(VerStr(10, 1, 2)), Bare(DateStr(2025, 1, 1)), Absent)}

FieldLine(key, f) ==
    IF ~f.present THEN <<>>
    ELSE IF f.quoted THEN <<NL, Tok(key, <<>>), Q>> \o f.val \o <<Q>>
    ELSE <<NL, Tok(key, <<>>)>> \o f.val

\* the text of a block: the header line, a line of another field, and the
\* lines of the fields that are present
BlockText(b) ==
    <<Tok(b.hdr, b.cycle), NL, Tok("txt", <<1>>)>>
        \o FieldLine("k_latest", b.latest)
        \o FieldLine("k_date", b.date)
        \o FieldLine("k_link", b.link)

RECURSIVE BlocksText(_)
BlocksText(bs) ==
    IF bs = <<>> THEN <<>>
    ELSE <<NL>> \o BlockText(Head(bs))
            \o (IF Len(bs) > 1 THEN <<NL>> ELSE <<>>)   \* a blank line between blocks
            \o BlocksText(Tail(bs))

\* the text of a document: the front matter's first lines, the blocks, the
\* `---` that ends the front matter, and the body
DocText(bs) ==
    <<Tok("txt", <<0>>)>> \o BlocksText(bs) \o <<NL, END, NL, Tok("txt", <<2>>), NL>>

Docs ==
    {DocText(<<b>>) : b \in Blocks}
        \cup {DocText(bs) : bs \in UNION {[1..k -> SpliceBlocks] : k \in 2..MaxBlocks}}

-----------------------------------------------------------------------------
(* main *)

NoOutput == [marker |-> "", lines |-> <<>>]

Idle ==
    /\ run = 1
    /\ json_cycles = <<>>
    /\ content = <<>>
    /\ releases = <<>>
    /\ updated_content = <<>>
    /\ changes = <<>>
    /\ outfile = None
    /\ stdout = NoOutput
    /\ exit_code = -1
    /\ error = ""

Init ==
    /\ pc = "start"
    /\ feed \in MainFeeds
    /\ md \in Docs
    /\ Idle
    /\ version_str = <<>>
    /\ url = None

\* line 211, load_json_versions returns
main_load ==
    /\ pc = "start"
    /\ ~load_json_versions(feed).raised
    /\ json_cycles' = load_json_versions(feed).cycles
    /\ pc' = "loaded"
    /\ UNCHANGED <<run, feed, md, content, releases, updated_content, changes,
                   outfile, stdout, exit_code, error, version_str, url>>

\* line 211, load_json_versions raises: the run ends with a traceback
main_load_raises ==
    /\ pc = "start"
    /\ load_json_versions(feed).raised
    /\ pc' = "failed"
    /\ exit_code' = 1
    /\ error' = "ValueError"
    /\ UNCHANGED <<run, feed, md, json_cycles, content, releases, updated_content,
                   changes, outfile, stdout, version_str, url>>

\* lines 212-215
main_parse ==
    /\ pc = "loaded"
    /\ content' = md
    /\ releases' = parse_md_releases(md)
    /\ pc' = "parsed"
    /\ UNCHANGED <<run, feed, md, json_cycles, updated_content, changes,
                   outfile, stdout, exit_code, error, version_str, url>>

\* line 216, apply_updates returns
main_apply ==
    /\ pc = "parsed"
    /\ LET r == apply_updates(content, releases, json_cycles)
       IN  /\ ~r.raised
           /\ updated_content' = r.content
           /\ changes' = r.changes
    /\ pc' = "applied"
    /\ UNCHANGED <<run, feed, md, json_cycles, content, releases,
                   outfile, stdout, exit_code, error, version_str, url>>

\* line 216, apply_updates raises: the run ends with a traceback
main_apply_raises ==
    /\ pc = "parsed"
    /\ apply_updates(content, releases, json_cycles).raised
    /\ pc' = "failed"
    /\ exit_code' = 1
    /\ error' = "TypeError"
    /\ UNCHANGED <<run, feed, md, json_cycles, content, releases, updated_content,
                   changes, outfile, stdout, version_str, url>>

\* faulty variant: the output file written although nothing changed
main_no_updates_writes ==
    /\ pc = "applied"
    /\ changes = <<>>
    /\ outfile' = updated_content
    /\ stdout' = [marker |-> "NO_UPDATES", lines |-> <<>>]
    /\ exit_code' = 0
    /\ pc' = "done"
    /\ UNCHANGED <<run, feed, md, json_cycles, content, releases, updated_content,
                   changes, error, version_str, url>>

\* lines 218-220
main_no_updates ==
    /\ pc = "applied"
    /\ changes = <<>>
    /\ stdout' = [marker |-> "NO_UPDATES", lines |-> <<>>]
    /\ exit_code' = 0
    /\ pc' = "done"
    /\ UNCHANGED <<run, feed, md, json_cycles, content, releases, updated_content,
                   changes, outfile, error, version_str, url>>

\* lines 222-223
main_write ==
    /\ pc = "applied"
    /\ changes # <<>>
    /\ outfile' = updated_content
    /\ pc' = "written"
    /\ UNCHANGED <<run, feed, md, json_cycles, content, releases, updated_content,
                   changes, stdout, exit_code, error, version_str, url>>

\* lines 225-227, and the return of main
main_print ==
    /\ pc = "written"
    /\ stdout' = [marker |-> "UPDATES_FOUND", lines |-> changes]
    /\ exit_code' = 0
    /\ pc' = "done"
    /\ UNCHANGED <<run, feed, md, json_cycles, content, releases, updated_content,
                   changes, outfile, error, version_str, url>>

\* the script run again on the document it wrote, with the same feed and a
\* new output path
run_again ==
    /\ pc = "done"
    /\ run = 1
    /\ outfile # None
    /\ md' = outfile
    /\ run' = 2
    /\ pc' = "start"
    /\ json_cycles' = <<>>
    /\ content' = <<>>
    /\ releases' = <<>>
    /\ updated_content' = <<>>
    /\ changes' = <<>>
    /\ outfile' = None
    /\ stdout' = NoOutput
    /\ exit_code' = -1
    /\ UNCHANGED <<feed, error, version_str, url>>

Next ==
    \/ main_load
    \/ main_load_raises
    \/ main_parse
    \/ main_apply
    \/ main_apply_raises
    \/ main_no_updates
    \/ main_write
    \/ main_print
    \/ run_again

Spec == Init /\ [][Next]_vars

-----------------------------------------------------------------------------
(* load_json_versions on its own *)

InitLoad ==
    /\ pc = "start"
    /\ feed \in LoadFeeds
    /\ md = <<>>
    /\ Idle
    /\ version_str = <<>>
    /\ url = None

NextLoad ==
    \/ main_load
    \/ main_load_raises

SpecLoad == InitLoad /\ [][NextLoad]_vars

-----------------------------------------------------------------------------
(* build_release_notes_url on its own *)

\* the largest major version
MaxMajor == 13

\* the largest minor, patch and hotfix number
MaxMinor == 2

UrlVersions ==
    {VerStr(a, b, c) : a \in 7..MaxMajor, b \in 0..MaxMinor, c \in 0..1}
        \cup {VerHfStr(a, b, c, h) : a \in 7..MaxMajor, b \in 0..MaxMinor,
                                      c \in 0..1, h \in 0..1}

InitUrl ==
    /\ pc = "url_call"
    /\ version_str \in UrlVersions
    /\ url = None
    /\ feed = <<>>
    /\ md = <<>>
    /\ Idle

\* lines 41-81
build_url ==
    /\ pc = "url_call"
    /\ url' = build_release_notes_url(version_str)
    /\ pc' = "url_done"
    /\ UNCHANGED <<run, feed, md, json_cycles, content, releases, updated_content,
                   changes, outfile, stdout, exit_code, error, version_str>>

NextUrl == build_url

SpecUrl == InitUrl /\ [][NextUrl]_vars

-----------------------------------------------------------------------------
(* Properties of build_release_notes_url, under SpecUrl *)

\* C8: the template follows from the (major, minor) pair alone, compared as a
\* pair: >= (12,1) gives template A, otherwise >= (10,1) template B, otherwise
\* >= (8,1) template C, otherwise no URL; the result is a URL exactly when the
\* cycle is >= 8.1.
C8_TemplateByCycle ==
    pc = "url_done" =>
        LET major == version_str[1].v[1]
            minor == version_str[1].v[2]
            cycle == <<major, minor>>
            base == version_str[1].v
            atLeast(a, b) == major > a \/ (major = a /\ minor >= b)
        IN  /\ atLeast(12, 1) =>
                /\ Len(url) = 3
                /\ url[1] = Tok("ngfw", cycle)
            /\ (~atLeast(12, 1) /\ atLeast(10, 1)) =>
                /\ Len(url) = 3
                /\ url[1] = Tok("panos", cycle)
                /\ url[2] = Tok("known", base)
            /\ (~atLeast(10, 1) /\ atLeast(8, 1)) =>
                /\ Len(url) = 3
                /\ url[1] = Tok("panos", cycle)
                /\ url[2] = Tok("addr", cycle)
            /\ ~atLeast(8, 1) => url = None
            /\ (url # None) <=> atLeast(8, 1)

\* a version of cycle 12.0, below 12.1 although its major is 12, got template B
C8_Witness ==
    /\ pc = "url_done"
    /\ version_str = VerHfStr(12, 0, 1, 1)
    /\ url[1] = Tok("panos", <<12, 0>>)

-----------------------------------------------------------------------------
(* Properties of load_json_versions, under SpecLoad *)

Parseable(i) == parse_version(feed[i].version) # None

\* the records of the feed whose version parses, of cycle c
RecordsOf(c) ==
    {i \in 1..Len(feed) : Parseable(i) /\ get_release_cycle(feed[i].version) = c}

\* the first record of cycle c among those of the greatest tuple
FirstMax(c) ==
    Min({i \in RecordsOf(c) :
            \A j \in RecordsOf(c) :
                TupleGE(parse_version(feed[i].version), parse_version(feed[j].version))})

\* C2: the mapping returned has exactly the cycles of the records whose
\* version parses, and for each the first record in feed order among those of
\* the greatest tuple, with that record's date as YYYY-MM-DD.
C2_FirstMaxPerCycle ==
    pc = "loaded" =>
        /\ DOMAIN json_cycles =
                {get_release_cycle(feed[i].version) : i \in {k \in 1..Len(feed) : Parseable(k)}}
        /\ \A c \in DOMAIN json_cycles :
                /\ json_cycles[c].version = feed[FirstMax(c)].version
                /\ json_cycles[c].date =
                        DateStr(feed[FirstMax(c)].released_on.y,
                                feed[FirstMax(c)].released_on.m,
                                feed[FirstMax(c)].released_on.d)

\* "10.1.5" then "10.1.5-h0", of equal tuple and different dates: the first
\* one and its date are retained
C2_Witness ==
    /\ pc = "loaded"
    /\ feed = <<Entry(VerStr(10, 1, 5), Stamp("padded", 2026, 2, 4)),
                Entry(VerHfStr(10, 1, 5, 0), Stamp("padded", 2025, 6, 1))>>
    /\ json_cycles[<<10, 1>>] = [version |-> VerStr(10, 1, 5), date |-> DateStr(2026, 2, 4)]

\* a released-on value that is not YYYY/MM/DD HH:MM:SS, or names no day
Malformed(ts) ==
    \/ ts.form \notin {"padded", "unpadded"}
    \/ ts.m \notin 1..12
    \/ ts.d < 1
    \/ ts.d > DaysIn(ts.y, ts.m)

\* C5 as claimed: every record with a malformed released-on makes the load
\* fail, whether or not that record's version parses.
C5_AnyMalformedStampFails ==
    (\E i \in 1..Len(feed) : Malformed(feed[i].released_on)) => pc # "loaded"

\* C5 as amended: every record whose version parses and whose released-on is
\* malformed makes the load fail, wherever it stands in the feed and whether
\* or not it would have been retained.
C5_MalformedStampOfParsedVersionFails ==
    (\E i \in 1..Len(feed) : Parseable(i) /\ Malformed(feed[i].released_on))
        => pc # "loaded"

\* the load failed on a second record that would not have been retained
C5_Witness ==
    /\ pc = "failed"
    /\ error = "ValueError"
    /\ Len(feed) = 2
    /\ feed[1] = Entry(VerHfStr(10, 1, 5, 1), Stamp("padded", 2026, 2, 4))
    /\ feed[2] = Entry(VerStr(10, 1, 2), Stamp("dateonly", 2026, 2, 4))

-----------------------------------------------------------------------------
(* Properties of apply_updates and main, under Spec *)

ZeroTuple == <<0, 0, 0, 0>>

Mapped(r) == r.releaseCycle \in DOMAIN json_cycles

NewVersion(r) == json_cycles[r.releaseCycle].version

NewDate(r) == json_cycles[r.releaseCycle].date

\* the block's latest is a version string
HasVersion(r) == r.latest # None /\ r.latest # Empty /\ parse_version(r.latest) # None

\* the block's cycle is mapped to a version of strictly greater tuple than the
\* block's latest, an absent or empty latest counting as the zero tuple
Newer(r) ==
    /\ Mapped(r)
    /\ \/ HasVersion(r) /\ TupleGT(parse_version(NewVersion(r)), parse_version(r.latest))
       \/ r.latest \in {None, Empty} /\ TupleGT(parse_version(NewVersion(r)), ZeroTuple)

\* the original latest as the change description shows it
OldString(r) == IF r.latest = None THEN Empty ELSE r.latest

\* a change description was produced for the block
HasChange(r) ==
    \E k \in 1..Len(changes) :
        changes[k].cycle = r.releaseCycle /\ changes[k].old = OldString(r)

\* the blocks of the returned document
OutBlocks == parse_md_releases(updated_content)

\* C1: a block is changed only when its cycle is mapped and the mapped
\* version's tuple is strictly greater than the tuple of its latest; every other
\* block keeps its text and gets no change description, and when no block is
\* behind the feed the change list is empty and the content is returned as is.
C1_OnlyStrictlyNewer ==
    pc = "applied" =>
        /\ Len(OutBlocks) = Len(releases)
        /\ \A i \in 1..Len(releases) :
                ~Newer(releases[i]) =>
                    /\ OutBlocks[i]._text = releases[i]._text
                    /\ ~HasChange(releases[i])
        /\ (\A i \in 1..Len(releases) : ~Newer(releases[i])) =>
                /\ changes = <<>>
                /\ updated_content = content

\* one block was updated and another, of a mapped cycle and a latest equal to
\* the mapped version, was not
C1_Witness ==
    /\ pc = "applied"
    /\ \E i, j \in 1..Len(releases) :
            /\ Newer(releases[i])
            /\ HasChange(releases[i])
            /\ Mapped(releases[j])
            /\ releases[j].latest = NewVersion(releases[j])
            /\ OutBlocks[j]._text = releases[j]._text

\* C3 as claimed: every block for which a change description was produced,
\* its latest and latestReleaseDate being quoted or bare values, re-parses to
\* the mapped version and the mapped date.
C3_UpdatedBlockReparses ==
    pc = "applied" =>
        \A i \in 1..Len(releases) :
            (/\ HasChange(releases[i])
             /\ releases[i].latest # None
             /\ releases[i].latestReleaseDate # None)
                => /\ OutBlocks[i].latest = NewVersion(releases[i])
                   /\ OutBlocks[i].latestReleaseDate = NewDate(releases[i])

\* C4 as claimed: a block whose latest is absent or no version string is
\* compared as the zero tuple: the call does not raise, and the block is
\* updated exactly when the mapped version's tuple is greater than zero.
C4_ZeroTupleForNullOrUnparseable ==
    /\ error # "TypeError"
    /\ pc = "applied" =>
            \A i \in 1..Len(releases) :
                (Mapped(releases[i]) /\ ~HasVersion(releases[i]))
                    => (HasChange(releases[i])
                            <=> TupleGT(parse_version(NewVersion(releases[i])), ZeroTuple))

\* the values of the link lines of a text, in order
RECURSIVE LinkValues(_, _)
LinkValues(text, i) ==
    IF i > Len(text) THEN <<>>
    ELSE IF text[i].k = "k_link"
        THEN <<SubSeq(text, i + 1, line_end(text, i + 1))>> \o LinkValues(text, i + 1)
    ELSE LinkValues(text, i + 1)

\* the URL of template A, B or C for a version string, None below 8.1
UrlFor(v) ==
    LET major == v[1].v[1]
        minor == v[1].v[2]
        cycle == <<major, minor>>
        full == IF Len(v) > 1 THEN v[1].v \o v[2].v ELSE v[1].v
        atLeast(a, b) == major > a \/ (major = a /\ minor >= b)
    IN  IF atLeast(12, 1)
            THEN <<Tok("ngfw", cycle), Tok("known", v[1].v), Tok("addr", full)>>
        ELSE IF atLeast(10, 1)
            THEN <<Tok("panos", cycle), Tok("known", v[1].v), Tok("addr", full)>>
        ELSE IF atLeast(8, 1)
            THEN <<Tok("panos", cycle), Tok("addr", cycle), Tok("addr", full)>>
        ELSE None

\* C6: in an updated block the link is rewritten to the built URL exactly when
\* a URL can be built and the block has a link field; otherwise the link lines
\* are unchanged, and no block gains a link field.
C6_LinkOnlyWhereLinkWas ==
    pc = "applied" =>
        /\ Len(OutBlocks) = Len(releases)
        /\ \A i \in 1..Len(releases) :
            LET before == LinkValues(releases[i]._text, 1)
                after == LinkValues(OutBlocks[i]._text, 1)
            IN  /\ Len(after) = Len(before)
                /\ IF /\ HasChange(releases[i])
                      /\ UrlFor(NewVersion(releases[i])) # None
                      /\ before # <<>>
                     THEN \A n \in 1..Len(after) : after[n] = UrlFor(NewVersion(releases[i]))
                     ELSE after = before

\* a block without a link field was updated to a version that has a URL
C6_Witness ==
    /\ pc = "applied"
    /\ \E i \in 1..Len(releases) :
            /\ HasChange(releases[i])
            /\ UrlFor(NewVersion(releases[i])) # None
            /\ LinkValues(releases[i]._text, 1) = <<>>
            /\ OutBlocks[i]._text # releases[i]._text

\* the change descriptions of the blocks from index i down to 1
RECURSIVE ChangesDownFrom(_)
ChangesDownFrom(i) ==
    IF i = 0 THEN <<>>
    ELSE (IF Newer(releases[i])
            THEN <<[cycle |-> releases[i].releaseCycle,
                    old |-> OldString(releases[i]),
                    new |-> NewVersion(releases[i])]>>
            ELSE <<>>)
         \o ChangesDownFrom(i - 1)

\* C7: the output file is written exactly when the change list is not empty.
\* A run that ends without updates has printed NO_UPDATES, exits 0 and wrote
\* nothing; a run that ends with updates wrote the updated content and then
\* printed UPDATES_FOUND and one line per change, in reverse document order.
C7_TwoOutcomes ==
    /\ (outfile # None) <=> (pc \in {"written", "done"} /\ changes # <<>>)
    /\ pc # "done" => stdout = NoOutput
    /\ pc = "done" =>
        /\ exit_code = 0
        /\ error = ""
        /\ IF changes = <<>>
             THEN /\ stdout = [marker |-> "NO_UPDATES", lines |-> <<>>]
                  /\ outfile = None
             ELSE /\ outfile = updated_content
                  /\ stdout.marker = "UPDATES_FOUND"
                  /\ stdout.lines = changes
                  /\ stdout.lines = ChangesDownFrom(Len(releases))

\* a run ended with two updates of different cycles reported and written
C7_Witness ==
    /\ pc = "done"
    /\ outfile = updated_content
    /\ Len(stdout.lines) = 2
    /\ stdout.lines[1].cycle # stdout.lines[2].cycle

\* the document rebuilt from index pos on: the text up to block i, block i
\* rewritten when it is behind the feed, and so on to the end
RECURSIVE Rebuilt(_, _)
Rebuilt(i, pos) ==
    IF i > Len(releases) THEN SubSeq(content, pos + 1, Len(content))
    ELSE SubSeq(content, pos + 1, releases[i]._start)
            \o (IF Newer(releases[i])
                    THEN rewrite_block(releases[i]._text, NewVersion(releases[i]),
                                       NewDate(releases[i]))
                    ELSE releases[i]._text)
            \o Rebuilt(i + 1, releases[i]._end)

\* C9: the blocks parsed are in increasing offset order, do not overlap and
\* are the text at their offsets; the returned content is the original with
\* each updated block's span replaced by its rewritten text and everything
\* else unchanged and in order.
C9_SpliceKeepsTheRest ==
    pc = "applied" =>
        /\ \A i \in 1..Len(releases) :
                /\ releases[i]._start < releases[i]._end
                /\ releases[i]._end <= Len(content)
                /\ SubSeq(content, releases[i]._start + 1, releases[i]._end) = releases[i]._text
                /\ i < Len(releases) => releases[i]._end <= releases[i + 1]._start
        /\ updated_content = Rebuilt(1, 0)

\* two blocks were updated, the first to a text of another length
C9_Witness ==
    /\ pc = "applied"
    /\ Len(releases) = 2
    /\ Len(changes) = 2
    /\ Len(OutBlocks[1]._text) # Len(releases[1]._text)
    /\ Len(updated_content) # Len(content)

\* C10 as claimed: the run on the first run's output changes nothing: its
\* change list is empty, its content unchanged, and it reports NO_UPDATES.
C10_SecondRunNoUpdates ==
    run = 2 =>
        /\ pc = "applied" => (changes = <<>> /\ updated_content = content)
        /\ pc = "done" => stdout.marker = "NO_UPDATES"

====
